---- MODULE Spec2Model ----
(***************************************************************************)
(* The borrow/return receive cycle of go-snf: the ring reader of           *)
(* snf/ring_reader.h and the filtered batch receiver of snf/receiver.h,    *)
(* both driven against the SNF capture-ring transport, whose results are   *)
(* nondeterministic inputs of every operation.                             *)
(***************************************************************************)
EXTENDS Integers, Sequences, FiniteSets, TLC

VARIABLES
    impl,     \* which structure the consumer created: "ring_reader" or "recv_req_many"
    reader,   \* struct ring_reader
    reqvec,   \* struct recv_req_many
    op,       \* history: the operation called last
    ret,      \* history: its return code
    calls,    \* history: the transport calls it made, in order
    mark,     \* history: total_len / nreq_out at the checkpoints inside go_snf_recv_many
    heap,     \* the allocator: which blocks are live, and whether free was misused
    preqvec,  \* the consumer's struct recv_req_many pointer and the two pointers it holds
    prog,     \* the consumer's struct bpf_program pointer and what it points to
    memlog,   \* history: the allocator calls the last operation made, in order
    arg,      \* history: the arguments of the last operation
    peer,     \* history: return code and transport calls of the second structure,
              \* when two are driven side by side
    lt,       \* the load-test program: main, its thread contexts, its workers
    x         \* the struct compound_int snf_inject_send_bulk returned last

vars == <<impl, reader, reqvec, op, ret, calls, mark, heap, preqvec, prog, memlog, arg,
          peer, lt, x>>

----------------------------------------------------------------------------
(* Bounds *)

\* largest capacity (nreq_in) a structure is created with
MaxCap == 2

\* the rings the device lets the load test open, and the packets its rings
\* deliver in all
MaxRings == 2
MaxPackets == 3

\* the packets one snf_inject_send_bulk is given
MaxPkts == 3

\* with one descriptor total_len only grows: go_snf_recv_many is then not
\* called once total_len would pass this
TotalCap == 280

\* the blocks the allocator can have live at a time
MaxBlocks == 5
MaxStale == 1

----------------------------------------------------------------------------
(* Program constants *)

\* data_qlen and total_len are uint32_t.  Every sum of this model stays far
\* below 2^32 (a batch is at most MaxCap descriptors of at most 136 bytes, and
\* the running total of a single descriptor stops at TotalCap), where uint32_t
\* addition is addition.
\* The value the source passes to release everything, converted to uint32_t
\* by the call, is kept as written:
RELEASE_ALL == -1

EINTR == 4
EAGAIN == 11
ENOMEM == 12
EBUSY == 16
ENOMSG == 42
ENOTSUP == 95

\* the error codes a transport call may end with
Errs == {EAGAIN, ENOTSUP}
Rcs == {0} \cup Errs

----------------------------------------------------------------------------
(* Descriptors: struct snf_recv_req, reduced to the fields the code reads *)

snf_recv_req(len, len_data) == [length |-> len, length_data |-> len_data]

\* a descriptor slot as calloc leaves it
ZeroReq == snf_recv_req(0, 0)

\* the descriptors the transport delivers: length_data is the ring memory the
\* packet occupies, the captured length with its padding
Pkts == {snf_recv_req(32, 40), snf_recv_req(128, 136)}

\* the batches snf_ring_recv_many may fill when asked for n descriptors
Batches(n) == UNION {[1..k -> Pkts] : k \in 0..n}

----------------------------------------------------------------------------
(* The transport: what one operation's calls to it return *)

\* snf_ring_recv: rc, and on success the descriptor written to *recv_req
RecvOutcomes ==
    {[rc |-> 0, req |-> p] : p \in Pkts} \cup {[rc |-> e, req |-> ZeroReq] : e \in Errs}

\* snf_ring_recv_many: rc, whether *nreq_out was written and with what, and the
\* descriptors filled.  On success the count is the number filled; on error the
\* transport's contract does not say what it leaves in *nreq_out.
RecvManyOutcomes(n) ==
    {[rc |-> 0, wrote |-> TRUE, count |-> Len(b), filled |-> b] : b \in Batches(n)}
    \cup {[rc |-> e, wrote |-> FALSE, count |-> 0, filled |-> <<>>] : e \in Errs}
    \cup {[rc |-> e, wrote |-> TRUE, count |-> c, filled |-> <<>>] : e \in Errs, c \in 0..n}

NoRecv == [rc |-> ENOTSUP, req |-> ZeroReq]
NoRecvMany == [rc |-> ENOTSUP, wrote |-> FALSE, count |-> 0, filled |-> <<>>]

\* the transport's answers during one operation on a structure of capacity n:
\* recv for snf_ring_recv, many for snf_ring_recv_many, ret for the first
\* snf_ring_return_many of the operation and all for a second one.  An answer
\* is enumerated only where some operation can ask for it: with one
\* descriptor no code path returns memory, ring_reader.h has no second return
\* request, and receiver.h makes no receive after two failed return requests.
SingleTransport ==
    {[recv |-> o, many |-> NoRecvMany, ret |-> 0, all |-> 0] : o \in RecvOutcomes}

RingTransport(n) ==
    IF n = 1 THEN SingleTransport
    ELSE {[recv |-> NoRecv, many |-> m, ret |-> r, all |-> 0] :
              m \in RecvManyOutcomes(n), r \in Rcs}

GoTransport(n) ==
    IF n = 1 THEN SingleTransport
    ELSE {[recv |-> NoRecv, many |-> m, ret |-> r, all |-> 0] :
              m \in RecvManyOutcomes(n), r \in Rcs}
         \cup {[recv |-> NoRecv, many |-> NoRecvMany, ret |-> r, all |-> a] :
                   r \in Errs, a \in Errs}

\* one transport call as recorded in the history
Call(fn, data_qlen, rc, filled) ==
    [fn |-> fn, data_qlen |-> data_qlen, rc |-> rc, filled |-> filled]

\* req_vector after the transport filled its first Len(filled) slots
WriteReqs(reqs, filled) ==
    [i \in 1..Len(reqs) |-> IF i <= Len(filled) THEN filled[i] ELSE reqs[i]]

Result(st, rc, cs) == [st |-> st, rc |-> rc, calls |-> cs]

----------------------------------------------------------------------------
(* snf/ring_reader.h *)

RECURSIVE ring_reader_data_qlen_loop(_, _, _)
ring_reader_data_qlen_loop(rd, i, data_qlen) ==
    IF i < rd.nreq_out
    THEN ring_reader_data_qlen_loop(rd, i + 1,
             data_qlen + rd.req_vector[i + 1].length_data)
    ELSE data_qlen

\* mutant: the loop starts at the second descriptor
ring_reader_data_qlen_skips_first(rd) == ring_reader_data_qlen_loop(rd, 1, 0)

ring_reader_data_qlen(rd) == ring_reader_data_qlen_loop(rd, 0, 0)

\* mutant: a single-descriptor receive always reports one descriptor
ring_reader_recv_many_counts_one(rd, t) ==
    IF rd.nreq_in = 1
    THEN LET rc == t.recv.rc
             st == [rd EXCEPT !.req_vector =
                                  IF rc = 0 THEN WriteReqs(@, <<t.recv.req>>) ELSE @,
                              !.nreq_out = 1]
         IN Result(st, rc, <<Call("snf_ring_recv", 0, rc,
                                  IF rc = 0 THEN <<t.recv.req>> ELSE <<>>)>>)
    ELSE LET st == [rd EXCEPT !.req_vector = WriteReqs(@, t.many.filled),
                              !.nreq_out = IF t.many.wrote THEN t.many.count ELSE 0]
         IN Result(st, t.many.rc,
                   <<Call("snf_ring_recv_many", 0, t.many.rc, t.many.filled)>>)

ring_reader_recv_many(rd, t) ==
    IF rd.nreq_in = 1
    THEN LET rc == t.recv.rc
             st == [rd EXCEPT !.req_vector =
                                  IF rc = 0 THEN WriteReqs(@, <<t.recv.req>>) ELSE @,
                              !.nreq_out = IF rc = 0 THEN 1 ELSE 0]
         IN Result(st, rc, <<Call("snf_ring_recv", 0, rc,
                                  IF rc = 0 THEN <<t.recv.req>> ELSE <<>>)>>)
    ELSE LET st == [rd EXCEPT !.req_vector = WriteReqs(@, t.many.filled),
                              !.nreq_out = IF t.many.wrote THEN t.many.count ELSE 0]
         IN Result(st, t.many.rc,
                   <<Call("snf_ring_recv_many", 0, t.many.rc, t.many.filled)>>)

\* mutant: the capacity test lets a single-descriptor reader through
ring_reader_return_many_any_capacity(rd, t) ==
    LET called == rd.nreq_in >= 1
        rc == IF called THEN t.ret ELSE 0
    IN Result([rd EXCEPT !.nreq_out = 0], rc,
              IF called
              THEN <<Call("snf_ring_return_many", ring_reader_data_qlen(rd), rc, <<>>)>>
              ELSE <<>>)

ring_reader_return_many(rd, t) ==
    LET called == rd.nreq_in > 1
        rc == IF called THEN t.ret ELSE 0
    IN Result([rd EXCEPT !.nreq_out = 0], rc,
              IF called
              THEN <<Call("snf_ring_return_many", ring_reader_data_qlen(rd), rc, <<>>)>>
              ELSE <<>>)

\* mutant: the result of the return step is dropped
ring_reader_recharge_ignores_return(rd, t) ==
    LET r == ring_reader_return_many(rd, t)
        before == IF rd.nreq_out > 0 THEN r ELSE Result(rd, 0, <<>>)
        v == ring_reader_recv_many(before.st, t)
    IN Result(v.st, v.rc, before.calls \o v.calls)

\* mutant: a single populated descriptor is not returned
ring_reader_recharge_skips_single(rd, t) ==
    LET r == ring_reader_return_many(rd, t)
    IN IF rd.nreq_out > 1 /\ r.rc # 0
       THEN r
       ELSE LET before == IF rd.nreq_out > 1 THEN r ELSE Result(rd, 0, <<>>)
                v == ring_reader_recv_many(before.st, t)
            IN Result(v.st, v.rc, before.calls \o v.calls)

ring_reader_recharge(rd, t) ==
    LET r == ring_reader_return_many(rd, t)
    IN IF rd.nreq_out > 0 /\ r.rc # 0
       THEN r
       ELSE LET before == IF rd.nreq_out > 0 THEN r ELSE Result(rd, 0, <<>>)
                v == ring_reader_recv_many(before.st, t)
            IN Result(v.st, v.rc, before.calls \o v.calls)

----------------------------------------------------------------------------
(* The allocator: malloc, calloc and free of the C library *)

NULL == 0

\* the addresses malloc and calloc hand out
Blocks == 1..MaxBlocks

\* an address that is no block of the allocator, and the words a read of
\* freed memory may give
NoBlock == -1
Words == Blocks \cup {NULL, NoBlock}

\* owner[b] names the function whose call allocated the live block b, and is ""
\* for a block that is not live; used is the number of blocks handed out so
\* far, the blocks being numbered in the order the allocator first hands them
\* out; bad records a free of a pointer that is neither NULL nor a live block
\* (a second free, a stray pointer); dead that such a free killed the
\* process; stale counts the calls the consumer made with a pointer whose
\* object had been freed
EmptyHeap ==
    [owner |-> [b \in Blocks |-> ""], used |-> 0, bad |-> FALSE, dead |-> FALSE,
     stale |-> 0]

Live(h) == {b \in Blocks : h.owner[b] # ""}

\* one allocator call as recorded in the history
MemCall(fn, p) == [fn |-> fn, p |-> p]

\* what the library may answer to a request in the heap h: NULL, any block
\* freed before and not handed out again since, or a block never handed out
\* (the next in number, if one is left).  Which of them it is the library
\* decides.  For a request of 0 bytes the answers are the same: NULL, or a
\* block that free must be given back
Answers(h) ==
    {NULL} \cup {b \in Blocks : b <= h.used /\ h.owner[b] = ""}
           \cup {b \in Blocks : b = h.used + 1}

\* p is the library's answer to this request, one of Answers(h)
malloc(h, p, tag) ==
    IF p = NULL THEN [p |-> NULL, heap |-> h]
    ELSE [p |-> p, heap |-> [h EXCEPT !.owner[p] = tag,
                                      !.used = IF p > @ THEN p ELSE @]]

\* the zeroes calloc writes are those of recv_req_many below
calloc(h, p, tag) == malloc(h, p, tag)

\* the answers to a request that is made only after the request answered by
\* p succeeded in the heap h: NULL stands for the answer never asked for
AnswersAfter(h, p, tag) ==
    IF p = NULL THEN {NULL} ELSE Answers(malloc(h, p, tag).heap)

free(h, p) ==
    IF p = NULL THEN h
    ELSE IF p \in Blocks /\ h.owner[p] # "" THEN [h EXCEPT !.owner[p] = ""]
    ELSE [h EXCEPT !.bad = TRUE]

\* free is given a pointer that is neither NULL nor a live block
Misused(h, p) == p # NULL /\ ~(p \in Blocks /\ h.owner[p] # "")

\* the heap after the free calls of log
RECURSIVE Replay(_, _)
Replay(h, log) ==
    IF log = <<>> THEN h ELSE Replay(free(h, Head(log).p), Tail(log))

\* what a run of free calls may end in: all of them made, or the process
\* killed inside one that was misused, the later ones never made
FreeOutcomes(h, log) ==
    {[heap |-> Replay(h, log), log |-> log]}
    \cup {[heap |-> [Replay(h, SubSeq(log, 1, k)) EXCEPT !.dead = TRUE],
           log |-> SubSeq(log, 1, k)] :
              k \in {j \in DOMAIN log : Misused(Replay(h, SubSeq(log, 1, j - 1)), log[j].p)}}

----------------------------------------------------------------------------
(* libpcap's filter machine, as far as the filters of this model use it *)

Insn(code, k, jt, jf) == [code |-> code, k |-> k, jt |-> jt, jf |-> jf]

\* "len >= 64"
LenGe64 == <<Insn("ld_len", 0, 0, 0), Insn("jge_k", 64, 0, 1),
             Insn("ret_k", 65535, 0, 0), Insn("ret_k", 0, 0, 0)>>
\* accepts a packet that has a captured byte at offset 130
HasByte130 == <<Insn("ldb_abs", 130, 0, 0), Insn("ret_k", 65535, 0, 0)>>

Programs == {LenGe64, HasByte130}

RECURSIVE bpf_filter(_, _, _, _, _)
bpf_filter(insns, pc, A, wirelen, buflen) ==
    IF pc > Len(insns) THEN 0
    ELSE LET in == insns[pc]
         IN CASE in.code = "ret_k"   -> in.k
              [] in.code = "ld_len"  -> bpf_filter(insns, pc + 1, wirelen, wirelen, buflen)
              [] in.code = "ldb_abs" -> IF in.k >= buflen THEN 0
                                        ELSE bpf_filter(insns, pc + 1, 0, wirelen, buflen)
              [] in.code = "jge_k"   -> bpf_filter(insns,
                                            pc + 1 + (IF A >= in.k THEN in.jt ELSE in.jf),
                                            A, wirelen, buflen)
              [] OTHER -> 0

pcap_offline_filter(fp, hdr) == bpf_filter(fp.bf_insns.mem, 1, 0, hdr.len, hdr.caplen)

----------------------------------------------------------------------------
(* snf/filter.c *)

\* a struct bpf_program: bf_insns is a pointer, null or to its own block
NullInsns == [null |-> TRUE, mem |-> <<>>]
ZeroFp == [bf_len |-> 0, bf_insns |-> NullInsns]

\* go_bpf_make: fp_ok and insns_ok are the results of its two malloc calls.
\* fp is the program stored through pfp, meaningful when rc = 0.
go_bpf_make(n_insns, insns, fp_ok, insns_ok) ==
    IF ~fp_ok THEN [rc |-> ENOMEM, stored |-> FALSE, fp |-> ZeroFp]
    ELSE IF ~insns_ok THEN [rc |-> ENOMEM, stored |-> FALSE, fp |-> ZeroFp]
    ELSE [rc |-> 0, stored |-> TRUE,
          fp |-> [bf_len |-> n_insns,
                  bf_insns |-> [null |-> FALSE, mem |-> SubSeq(insns, 1, n_insns)]]]

\* the consumer's struct bpf_program pointer (fp), and behind it the struct's
\* bf_len and bf_insns and the instructions bf_insns points to
NullProg == [fp |-> NULL, bf_len |-> 0, bf_insns |-> NULL, mem |-> <<>>]

\* where the caller's instruction array lives: not a block of the allocator
InsnsAddr == MaxBlocks + 1

\* mutant: the program keeps the caller's array instead of the copy
go_bpf_make_blocks_aliases(h, n_insns, insns, p1, p2) ==
    LET a1 == malloc(h, p1, "go_bpf_make")
        a2 == malloc(a1.heap, p2, "go_bpf_make")
        m == go_bpf_make(n_insns, insns, a1.p # NULL, a2.p # NULL)
        l1 == <<MemCall("malloc", a1.p)>>
        l2 == l1 \o <<MemCall("malloc", a2.p)>>
    IN IF a1.p = NULL
       THEN [rc |-> m.rc, stored |-> m.stored, prog |-> NullProg,
             heap |-> a1.heap, log |-> l1]
       ELSE IF a2.p = NULL
       THEN [rc |-> m.rc, stored |-> m.stored, prog |-> NullProg,
             heap |-> free(a2.heap, a1.p), log |-> l2 \o <<MemCall("free", a1.p)>>]
       ELSE [rc |-> m.rc, stored |-> m.stored,
             prog |-> [fp |-> a1.p, bf_len |-> m.fp.bf_len,
                       bf_insns |-> InsnsAddr, mem |-> insns],
             heap |-> a2.heap, log |-> l2]

\* go_bpf_make with its memory: h is the heap it runs in, p1 and p2 the
\* answers to its two malloc calls; prog is what *pfp points to afterwards,
\* meaningful when stored
go_bpf_make_blocks(h, n_insns, insns, p1, p2) ==
    LET a1 == malloc(h, p1, "go_bpf_make")
        a2 == malloc(a1.heap, p2, "go_bpf_make")
        m == go_bpf_make(n_insns, insns, a1.p # NULL, a2.p # NULL)
        l1 == <<MemCall("malloc", a1.p)>>
        l2 == l1 \o <<MemCall("malloc", a2.p)>>
    IN IF a1.p = NULL
       THEN [rc |-> m.rc, stored |-> m.stored, prog |-> NullProg,
             heap |-> a1.heap, log |-> l1]
       ELSE IF a2.p = NULL
       THEN [rc |-> m.rc, stored |-> m.stored, prog |-> NullProg,
             heap |-> free(a2.heap, a1.p), log |-> l2 \o <<MemCall("free", a1.p)>>]
       ELSE [rc |-> m.rc, stored |-> m.stored,
             prog |-> [fp |-> a1.p, bf_len |-> m.fp.bf_len,
                       bf_insns |-> a2.p, mem |-> m.fp.bf_insns.mem],
             heap |-> a2.heap, log |-> l2]

go_bpf_delete(h, pr) ==
    [heap |-> free(IF pr.fp # NULL THEN free(h, pr.bf_insns) ELSE h, pr.fp),
     log |-> (IF pr.fp # NULL THEN <<MemCall("free", pr.bf_insns)>> ELSE <<>>)
             \o <<MemCall("free", pr.fp)>>]


----------------------------------------------------------------------------
(* snf/receiver.h *)

\* mutant: the capacity is stored in nreq_out as well
recv_req_many_counts_capacity(nreq_in) ==
    [reqs |-> [i \in 1..nreq_in |-> ZeroReq],
     bpf_result |-> [i \in 1..nreq_in |-> 0],
     nreq_in |-> nreq_in,
     nreq_out |-> nreq_in,
     total_len |-> 0,
     fp |-> ZeroFp]

\* the struct go_snf_recv_req_many_create hands over when every calloc succeeds
recv_req_many(nreq_in) ==
    [reqs |-> [i \in 1..nreq_in |-> ZeroReq],
     bpf_result |-> [i \in 1..nreq_in |-> 0],
     nreq_in |-> nreq_in,
     nreq_out |-> 0,
     total_len |-> 0,
     fp |-> ZeroFp]

\* the consumer's struct recv_req_many pointer (hdr), and the reqs and
\* bpf_result pointers of the struct it points to
NullBatch == [hdr |-> NULL, reqs |-> NULL, bpf_result |-> NULL]

\* mutant: the filter-result array is never freed
go_snf_recv_req_many_destroy_keeps_result(h, b) ==
    LET h1 == IF b.hdr # NULL THEN free(h, b.reqs) ELSE h
    IN [heap |-> free(h1, b.hdr),
        log |-> (IF b.hdr # NULL THEN <<MemCall("free", b.reqs)>> ELSE <<>>)
                \o <<MemCall("free", b.hdr)>>]

go_snf_recv_req_many_destroy(h, b) ==
    LET h1 == IF b.hdr # NULL THEN free(free(h, b.reqs), b.bpf_result) ELSE h
    IN [heap |-> free(h1, b.hdr),
        log |-> (IF b.hdr # NULL
                 THEN <<MemCall("free", b.reqs), MemCall("free", b.bpf_result)>>
                 ELSE <<>>)
                \o <<MemCall("free", b.hdr)>>]

\* mutant: a failed bpf_result allocation returns without the destroy
go_snf_recv_req_many_create_leaks(h, nreq_in, p1, p2, p3) ==
    LET a1 == calloc(h, p1, "go_snf_recv_req_many_create")
        a2 == calloc(a1.heap, p2, "go_snf_recv_req_many_create")
        a3 == calloc(a2.heap, p3, "go_snf_recv_req_many_create")
        l1 == <<MemCall("calloc", a1.p)>>
        l2 == l1 \o <<MemCall("calloc", a2.p)>>
        l3 == l2 \o <<MemCall("calloc", a3.p)>>
        d2 == go_snf_recv_req_many_destroy(
                  a2.heap, [hdr |-> a1.p, reqs |-> NULL, bpf_result |-> NULL])
        failed(hp, lg) == [rc |-> ENOMEM, stored |-> FALSE, batch |-> NullBatch,
                           st |-> recv_req_many(0), heap |-> hp, log |-> lg]
    IN IF a1.p = NULL THEN failed(a1.heap, l1)
       ELSE IF a2.p = NULL THEN failed(d2.heap, l2 \o d2.log)
       ELSE IF a3.p = NULL THEN failed(a3.heap, l3)
       ELSE [rc |-> 0, stored |-> TRUE,
             batch |-> [hdr |-> a1.p, reqs |-> a2.p, bpf_result |-> a3.p],
             st |-> recv_req_many(nreq_in), heap |-> a3.heap, log |-> l3]

\* go_snf_recv_req_many_create in the heap h; p1, p2, p3 are the answers to
\* its three calloc calls.  batch and st are what *preqvec points to
\* afterwards, meaningful when stored.
go_snf_recv_req_many_create(h, nreq_in, p1, p2, p3) ==
    LET a1 == calloc(h, p1, "go_snf_recv_req_many_create")
        a2 == calloc(a1.heap, p2, "go_snf_recv_req_many_create")
        a3 == calloc(a2.heap, p3, "go_snf_recv_req_many_create")
        l1 == <<MemCall("calloc", a1.p)>>
        l2 == l1 \o <<MemCall("calloc", a2.p)>>
        l3 == l2 \o <<MemCall("calloc", a3.p)>>
        d2 == go_snf_recv_req_many_destroy(
                  a2.heap, [hdr |-> a1.p, reqs |-> NULL, bpf_result |-> NULL])
        d3 == go_snf_recv_req_many_destroy(
                  a3.heap, [hdr |-> a1.p, reqs |-> a2.p, bpf_result |-> NULL])
        failed(hp, lg) == [rc |-> ENOMEM, stored |-> FALSE, batch |-> NullBatch,
                           st |-> recv_req_many(0), heap |-> hp, log |-> lg]
    IN IF a1.p = NULL THEN failed(a1.heap, l1)
       ELSE IF a2.p = NULL THEN failed(d2.heap, l2 \o d2.log)
       ELSE IF a3.p = NULL THEN failed(d3.heap, l3 \o d3.log)
       ELSE [rc |-> 0, stored |-> TRUE,
             batch |-> [hdr |-> a1.p, reqs |-> a2.p, bpf_result |-> a3.p],
             st |-> recv_req_many(nreq_in), heap |-> a3.heap, log |-> l3]

\* mutant: total_len is reset only when the release succeeded
go_snf_return_many_keeps_total(rv, t) ==
    LET rc1 == t.ret
        rc == IF rc1 # 0 THEN t.all ELSE rc1
        first == Call("snf_ring_return_many", rv.total_len, rc1, <<>>)
        again == Call("snf_ring_return_many", RELEASE_ALL, t.all, <<>>)
    IN Result([rv EXCEPT !.total_len = IF rc = 0 THEN 0 ELSE @], rc,
              IF rc1 # 0 THEN <<first, again>> ELSE <<first>>)

\* mutant: the result of the release is that of the first request
go_snf_return_many_first_code(rv, t) ==
    LET rc1 == t.ret
        first == Call("snf_ring_return_many", rv.total_len, rc1, <<>>)
        again == Call("snf_ring_return_many", RELEASE_ALL, t.all, <<>>)
    IN Result([rv EXCEPT !.total_len = 0],
              rc1,
              IF rc1 # 0 THEN <<first, again>> ELSE <<first>>)

go_snf_return_many(rv, t) ==
    LET rc1 == t.ret
        first == Call("snf_ring_return_many", rv.total_len, rc1, <<>>)
        again == Call("snf_ring_return_many", RELEASE_ALL, t.all, <<>>)
    IN Result([rv EXCEPT !.total_len = 0],
              IF rc1 # 0 THEN t.all ELSE rc1,
              IF rc1 # 0 THEN <<first, again>> ELSE <<first>>)

\* mutant: only the descriptors the filter accepts are added to total_len
RECURSIVE go_snf_post_process_loop_sums_accepted(_, _)
go_snf_post_process_loop_sums_accepted(rv, i) ==
    IF i < rv.nreq_out
    THEN LET req == rv.reqs[i + 1]
             hdr == [caplen |-> req.length, len |-> req.length]
             filtered == rv.fp.bf_len # 0 /\ ~rv.fp.bf_insns.null
             result == IF filtered THEN pcap_offline_filter(rv.fp, hdr) ELSE 1
             summed == [rv EXCEPT !.total_len =
                                      IF result # 0 THEN @ + req.length_data ELSE @]
         IN go_snf_post_process_loop_sums_accepted(
                IF filtered
                THEN [summed EXCEPT !.bpf_result[i + 1] = result]
                ELSE summed,
                i + 1)
    ELSE rv

\* mutant: the header's caplen is the ring length of the descriptor
RECURSIVE go_snf_post_process_loop_caplen_data(_, _)
go_snf_post_process_loop_caplen_data(rv, i) ==
    IF i < rv.nreq_out
    THEN LET req == rv.reqs[i + 1]
             summed == [rv EXCEPT !.total_len = @ + req.length_data]
             hdr == [caplen |-> req.length_data, len |-> req.length]
         IN go_snf_post_process_loop_caplen_data(
                IF rv.fp.bf_len # 0 /\ ~rv.fp.bf_insns.null
                THEN [summed EXCEPT !.bpf_result[i + 1] = pcap_offline_filter(rv.fp, hdr)]
                ELSE summed,
                i + 1)
    ELSE rv

RECURSIVE go_snf_post_process_loop(_, _)
go_snf_post_process_loop(rv, i) ==
    IF i < rv.nreq_out
    THEN LET req == rv.reqs[i + 1]
             summed == [rv EXCEPT !.total_len = @ + req.length_data]
             hdr == [caplen |-> req.length, len |-> req.length]
         IN go_snf_post_process_loop(
                IF rv.fp.bf_len # 0 /\ ~rv.fp.bf_insns.null
                THEN [summed EXCEPT !.bpf_result[i + 1] = pcap_offline_filter(rv.fp, hdr)]
                ELSE summed,
                i + 1)
    ELSE rv

go_snf_post_process(rv) == go_snf_post_process_loop(rv, 0)

\* go_snf_recv_many; besides the result, the checkpoints of the call: total_len
\* after the return step (-1 when the step is not taken) and the structure as
\* go_snf_post_process receives it
go_snf_recv_many(rv, t) ==
    LET single == rv.nreq_in = 1
        r == go_snf_return_many(rv, t)
        batch == ~single /\ r.rc = 0
        rc == IF single THEN t.recv.rc ELSE IF batch THEN t.many.rc ELSE r.rc
        local == IF batch /\ t.many.wrote THEN t.many.count ELSE 1
        nreq_out == IF rc # 0 THEN 0 ELSE local
        got == IF single
               THEN [rv EXCEPT !.reqs = IF rc = 0 THEN WriteReqs(@, <<t.recv.req>>) ELSE @]
               ELSE IF batch
                    THEN [r.st EXCEPT !.reqs = WriteReqs(@, t.many.filled)]
                    ELSE r.st
        pre == [got EXCEPT !.nreq_out = nreq_out]
        cs == IF single
              THEN <<Call("snf_ring_recv", 0, rc, IF rc = 0 THEN <<t.recv.req>> ELSE <<>>)>>
              ELSE r.calls \o
                   (IF batch
                    THEN <<Call("snf_ring_recv_many", 0, t.many.rc, t.many.filled)>>
                    ELSE <<>>)
    IN [st |-> go_snf_post_process(pre), rc |-> rc, calls |-> cs,
        mark |-> [returned |-> IF single THEN -1 ELSE r.st.total_len,
                  pre_total |-> pre.total_len, pre_nreq_out |-> pre.nreq_out,
                  forgot |-> {}]]

----------------------------------------------------------------------------
(* snf/recv.h *)

\* the struct bpf_program behind the consumer's pointer
ProgStruct(pr) ==
    [bf_len |-> pr.bf_len, bf_insns |-> [null |-> pr.bf_insns = NULL, mem |-> pr.mem]]

\* mutant: a packet the filter rejects is reported as received
ring_recv_reports_rejected(o, fp) ==
    LET recv == Call("snf_ring_recv", 0, o.rc, IF o.rc = 0 THEN <<o.req>> ELSE <<>>)
        hdr == [caplen |-> o.req.length, len |-> o.req.length]
        res == pcap_offline_filter(fp, hdr)
        test == Call("pcap_offline_filter", 0, res, <<o.req>>)
    IN IF o.rc # 0 \/ fp.bf_len = 0
       THEN [rc |-> o.rc, calls |-> <<recv>>]
       ELSE [rc |-> 0, calls |-> <<recv, test>>]

\* ring_recv: o is the answer of snf_ring_recv, fp the program passed.  A
\* filter evaluation is recorded among the calls, with its result as rc.
ring_recv(o, fp) ==
    LET recv == Call("snf_ring_recv", 0, o.rc, IF o.rc = 0 THEN <<o.req>> ELSE <<>>)
        hdr == [caplen |-> o.req.length, len |-> o.req.length]
        res == pcap_offline_filter(fp, hdr)
        test == Call("pcap_offline_filter", 0, res, <<o.req>>)
    IN IF o.rc # 0 \/ fp.bf_len = 0
       THEN [rc |-> o.rc, calls |-> <<recv>>]
       ELSE IF res = 0
       THEN [rc |-> ENOMSG, calls |-> <<recv, test>>]
       ELSE [rc |-> 0, calls |-> <<recv, test>>]

----------------------------------------------------------------------------
(* The state machine *)

\* the consumer's batch pointer names a batch that create made and nothing
\* has freed; its program pointer names a program that go_bpf_make made and
\* nothing has freed.  A pointer given to destroy or delete keeps its value
BatchLiveIn(h, b) ==
    /\ b.hdr # NULL
    /\ \A p \in {b.hdr, b.reqs, b.bpf_result} : h.owner[p] = "go_snf_recv_req_many_create"

BatchLive == BatchLiveIn(heap, preqvec)

ProgLive ==
    /\ prog.fp # NULL
    /\ \A b \in {prog.fp, prog.bf_insns} : heap.owner[b] = "go_bpf_make"

\* what go_snf_recv_req_many_destroy finds behind the consumer's pointer: the
\* batch, or, the header having been freed, any words where reqs and
\* bpf_result were; and go_bpf_delete behind the consumer's program pointer
BatchStale == preqvec.hdr # NULL /\ ~BatchLive
ProgStale == prog.fp # NULL /\ ~ProgLive

HeaderReads ==
    IF BatchStale
    THEN {[hdr |-> preqvec.hdr, reqs |-> r, bpf_result |-> b] : r \in Words, b \in Words}
    ELSE {preqvec}

ProgReads ==
    IF ProgStale THEN {[prog EXCEPT !.bf_insns = w] : w \in Words} ELSE {prog}

\* the heap once a call with a stale pointer has been counted
CountStale(h, stale) == IF stale THEN [h EXCEPT !.stale = @ + 1] ELSE h

\* forgot: the descriptors of a ring_reader that a failed return request
\* covered and no receive has filled since
NoMark == [returned |-> -1, pre_total |-> 0, pre_nreq_out |-> 0, forgot |-> {}]

\* forgot after the transport calls cs of an operation on a reader that had
\* n descriptors populated: a failed return request covered the first n, a
\* receive overwrites as many as it filled
RECURSIVE Forgotten(_, _, _)
Forgotten(f, n, cs) ==
    IF cs = <<>> THEN f
    ELSE LET c == Head(cs)
         IN Forgotten(IF c.fn = "snf_ring_return_many"
                      THEN IF c.rc # 0 THEN f \cup 1..n ELSE f
                      ELSE f \ 1..Len(c.filled),
                      n, Tail(cs))

NoReader == [nreq_in |-> 0, nreq_out |-> 0, req_vector |-> <<>>]

\* examples/loadtest/main.c
\* the entries of contexts[]
RINGS_MAX == 256

\* the entries of contexts[] that main and shutdown_snf can reach when the
\* device grants at most MaxRings rings: 0..MaxRings, the last one being the
\* slot whose snf_ring_open was refused.  The entries beyond stay as memset
\* left them and are not kept
Slots == 0..(IF MaxRings < RINGS_MAX THEN MaxRings ELSE RINGS_MAX - 1)

\* a struct thread_context as memset leaves it: ringh 0 is no ring handle
ZeroContext == [rc |-> 0, packets |-> 0, ringh |-> 0]

\* the load test is not running
\* the signals setup_sigaction installs signal_handler for, in its order
signals == <<"SIGINT", "SIGTERM", "SIGSEGV">>
Sigs == {signals[k] : k \in DOMAIN signals}

NoLoad ==
    [pc |-> "none", n |-> -1, n_rings |-> 0, i |-> 0, c |-> 0, exit_mark |-> 0, code |-> 0,
     handler |-> [sig \in Sigs |-> "SIG_DFL"], resethand |-> FALSE,
     contexts |-> [k \in Slots |-> ZeroContext],
     th |-> [k \in Slots |-> "none"],
     last |-> 0,
     closes |-> <<>>]

\* no snf_inject_send_bulk has returned: the struct as memset leaves it
NoX == [rc |-> 0, i |-> <<0, 0, 0>>]

\* no second structure is driven
NoPeer == [ret |-> 0, calls |-> <<>>]

\* the arguments the history keeps: a capacity, an instruction count or a
\* packet count, and an instruction array or an array of packet lengths
NoArg == [n |-> 0, insns |-> <<>>]

\* a ring_reader as its creator hands it over: nreq_out 0, and descriptor
\* memory that no code of ring_reader.h has initialised; a recv_req_many as
\* go_snf_recv_req_many_create returns it
Init ==
    /\ impl \in {"ring_reader", "recv_req_many"}
    /\ \E n \in 1..MaxCap :
           /\ arg = [NoArg EXCEPT !.n = n]
           /\ lt = NoLoad
           /\ x = NoX
           /\ peer = NoPeer
           /\ IF impl = "ring_reader"
              THEN /\ reader \in {[nreq_in |-> n, nreq_out |-> 0, req_vector |-> v] :
                                      v \in [1..n -> Pkts \cup {ZeroReq}]}
                   /\ reqvec = recv_req_many(0)
                   /\ heap = EmptyHeap /\ preqvec = NullBatch /\ memlog = <<>>
              ELSE \E c \in {go_snf_recv_req_many_create(EmptyHeap, n, 1, 2, 3)} :
                       /\ reader = NoReader
                       /\ reqvec = c.st
                       /\ heap = c.heap /\ preqvec = c.batch /\ memlog = c.log
    /\ prog = NullProg
    /\ op = "create"
    /\ ret = 0
    /\ calls = <<>>
    /\ mark = NoMark

\* the history of an operation that calls the transport and not the allocator
Finish(name, r) ==
    /\ op' = name
    /\ ret' = r.rc
    /\ calls' = r.calls
    /\ memlog' = <<>>
    /\ arg' = NoArg
    /\ lt' = lt
    /\ x' = NoX
    /\ peer' = NoPeer

RingReaderRecvMany ==
    /\ impl = "ring_reader"
    /\ \E t \in RingTransport(reader.nreq_in) :
           \E r \in {ring_reader_recv_many(reader, t)} :
              /\ reader' = r.st
              /\ mark' = [mark EXCEPT !.forgot = Forgotten(@, reader.nreq_out, r.calls)]
              /\ Finish("ring_reader_recv_many", r)
    /\ UNCHANGED <<impl, reqvec, heap, preqvec, prog>>

RingReaderReturnMany ==
    /\ impl = "ring_reader"
    /\ \E t \in RingTransport(reader.nreq_in) :
           \E r \in {ring_reader_return_many(reader, t)} :
              /\ reader' = r.st
              /\ mark' = [mark EXCEPT !.forgot = Forgotten(@, reader.nreq_out, r.calls)]
              /\ Finish("ring_reader_return_many", r)
    /\ UNCHANGED <<impl, reqvec, heap, preqvec, prog>>

RingReaderRecharge ==
    /\ impl = "ring_reader"
    /\ \E t \in RingTransport(reader.nreq_in) :
           \E r \in {ring_reader_recharge(reader, t)} :
              /\ reader' = r.st
              /\ mark' = [mark EXCEPT !.forgot = Forgotten(@, reader.nreq_out, r.calls)]
              /\ Finish("ring_reader_recharge", r)
    /\ UNCHANGED <<impl, reqvec, heap, preqvec, prog>>

GoSnfRecvMany ==
    /\ impl = "recv_req_many"
    /\ ~heap.dead
    /\ BatchLive
    /\ \E t \in GoTransport(reqvec.nreq_in) :
           \E r \in {go_snf_recv_many(reqvec, t)} :
              /\ reqvec.nreq_in = 1 => r.st.total_len <= TotalCap
              /\ reqvec' = r.st /\ mark' = r.mark /\ Finish("go_snf_recv_many", r)
    /\ UNCHANGED <<impl, reader, heap, preqvec, prog>>

\* the consumer installs a filter program made by go_bpf_make (an empty
\* instruction list clears the filter); a failed go_bpf_make installs nothing
SetFilter ==
    /\ impl = "recv_req_many"
    /\ ~heap.dead
    /\ BatchLive
    /\ \E p \in Programs \cup {<<>>}, fp_ok \in BOOLEAN, insns_ok \in BOOLEAN :
           LET m == go_bpf_make(Len(p), p, fp_ok, insns_ok)
           IN /\ reqvec' = IF m.stored THEN [reqvec EXCEPT !.fp = m.fp] ELSE reqvec
              /\ op' = "set_filter"
              /\ ret' = m.rc
    /\ calls' = <<>>
    /\ memlog' = <<>>
    /\ arg' = NoArg
    /\ lt' = lt
    /\ x' = NoX
    /\ peer' = NoPeer
    /\ UNCHANGED <<impl, reader, mark, heap, preqvec, prog>>

Next ==
    \/ RingReaderRecvMany
    \/ RingReaderReturnMany
    \/ RingReaderRecharge
    \/ GoSnfRecvMany
    \/ SetFilter

Spec == Init /\ [][Next]_vars

----------------------------------------------------------------------------
(* The life of a batch and of a filter program: from nothing allocated *)

InitLife ==
    /\ impl = "recv_req_many"
    /\ reader = NoReader
    /\ reqvec = recv_req_many(0)
    /\ heap = EmptyHeap
    /\ preqvec = NullBatch
    /\ prog = NullProg
    /\ op = "start"
    /\ ret = 0
    /\ calls = <<>>
    /\ mark = NoMark
    /\ memlog = <<>>
    /\ arg = NoArg
    /\ lt = NoLoad
    /\ x = NoX
    /\ peer = NoPeer

\* the consumer creates its batch, its pointer holding no live batch before
GoSnfRecvReqManyCreate ==
    /\ ~heap.dead
    /\ ~BatchLive
    /\ \E n \in 0..MaxCap, p1 \in Answers(heap) :
         \E p2 \in AnswersAfter(heap, p1, "go_snf_recv_req_many_create") :
         \E p3 \in (IF p2 = NULL THEN {NULL}
                    ELSE AnswersAfter(calloc(heap, p1, "go_snf_recv_req_many_create").heap,
                                      p2, "go_snf_recv_req_many_create")) :
           \E c \in {go_snf_recv_req_many_create(heap, n, p1, p2, p3)} :
              /\ heap' = c.heap
              /\ preqvec' = IF c.stored THEN c.batch ELSE preqvec
              /\ reqvec' = IF c.stored THEN c.st ELSE reqvec
              /\ op' = "go_snf_recv_req_many_create"
              /\ ret' = c.rc
              /\ memlog' = c.log
              /\ arg' = [NoArg EXCEPT !.n = n]
              /\ lt' = lt
              /\ x' = NoX
              /\ peer' = NoPeer
    /\ calls' = <<>>
    /\ mark' = NoMark
    /\ UNCHANGED <<impl, reader, prog>>

\* the consumer destroys what its pointer holds: a batch, NULL, or a batch
\* freed before, whose header the function then reads after its free.  The
\* pointer is passed by value and keeps its value; mark keeps the total_len
\* and nreq_out the batch had
GoSnfRecvReqManyDestroy ==
    /\ ~heap.dead
    /\ BatchStale => heap.stale < MaxStale
    /\ \E b \in HeaderReads :
           \E o \in FreeOutcomes(heap, go_snf_recv_req_many_destroy(heap, b).log) :
               heap' = CountStale(o.heap, BatchStale) /\ memlog' = o.log
    /\ preqvec' = preqvec
    /\ reqvec' = recv_req_many(0)
    /\ mark' = [NoMark EXCEPT !.pre_total = reqvec.total_len,
                              !.pre_nreq_out = reqvec.nreq_out]
    /\ op' = "go_snf_recv_req_many_destroy"
    /\ ret' = 0
    /\ calls' = <<>>
    /\ arg' = NoArg
    /\ lt' = lt
    /\ x' = NoX
    /\ peer' = NoPeer
    /\ UNCHANGED <<impl, reader, prog>>

\* go_bpf_make(n, insns, &prog) for an instruction array and a count of its
\* leading instructions
GoBpfMake ==
    /\ ~heap.dead
    /\ \E p \in Programs \cup {<<>>}, p1 \in Answers(heap) :
         \E p2 \in AnswersAfter(heap, p1, "go_bpf_make") :
           \E n \in {0, Len(p)} :
              \E m \in {go_bpf_make_blocks(heap, n, p, p1, p2)} :
                 /\ heap' = m.heap
                 /\ prog' = IF m.stored THEN m.prog ELSE prog
                 /\ ret' = m.rc
                 /\ memlog' = m.log
                 /\ arg' = [n |-> n, insns |-> p]
                 /\ lt' = lt
                 /\ x' = NoX
                 /\ peer' = NoPeer
    /\ op' = "go_bpf_make"
    /\ calls' = <<>>
    /\ UNCHANGED <<impl, reader, reqvec, preqvec, mark>>

\* the consumer deletes what its pointer holds: a program, NULL, or a program
\* freed before, whose bf_insns the function then reads after its free.  The
\* pointer is passed by value and keeps its value; a batch one of whose
\* blocks this frees is no batch any more
GoBpfDelete ==
    /\ ~heap.dead
    /\ ProgStale => heap.stale < MaxStale
    /\ \E pr \in ProgReads :
           \E o \in FreeOutcomes(heap, go_bpf_delete(heap, pr).log) :
               /\ heap' = CountStale(o.heap, ProgStale)
               /\ memlog' = o.log
               /\ reqvec' = IF BatchLive /\ ~BatchLiveIn(o.heap, preqvec)
                            THEN recv_req_many(0) ELSE reqvec
    /\ prog' = prog
    /\ op' = "go_bpf_delete"
    /\ ret' = 0
    /\ calls' = <<>>
    /\ arg' = NoArg
    /\ lt' = lt
    /\ x' = NoX
    /\ peer' = NoPeer
    /\ UNCHANGED <<impl, reader, preqvec, mark>>

\* ring_recv with the consumer's program
RingRecv ==
    /\ ~heap.dead
    /\ ProgLive
    /\ \E o \in RecvOutcomes :
           \E r \in {ring_recv(o, ProgStruct(prog))} : Finish("ring_recv", r)
    /\ UNCHANGED <<impl, reader, reqvec, preqvec, mark, heap, prog>>

\* the consumer of a batch alone: it creates and destroys, in a process that
\* holds no filter program or has made one
InitBatch ==
    /\ impl = "recv_req_many"
    /\ reader = NoReader
    /\ reqvec = recv_req_many(0)
    /\ preqvec = NullBatch
    /\ \E m \in {[heap |-> EmptyHeap, prog |-> NullProg],
                  go_bpf_make_blocks(EmptyHeap, Len(LenGe64), LenGe64, 1, 2)} :
           heap = m.heap /\ prog = m.prog
    /\ op = "start"
    /\ ret = 0
    /\ calls = <<>>
    /\ mark = NoMark
    /\ memlog = <<>>
    /\ arg = NoArg
    /\ lt = NoLoad
    /\ x = NoX
    /\ peer = NoPeer

NextBatch ==
    \/ GoSnfRecvReqManyCreate
    \/ GoSnfRecvReqManyDestroy

SpecBatch == InitBatch /\ [][NextBatch]_vars

\* the consumer of a filter program alone: it makes and deletes programs and
\* receives single packets through the one it holds
NextProg ==
    \/ GoBpfMake
    \/ GoBpfDelete
    \/ RingRecv

SpecProg == InitLife /\ [][NextProg]_vars

\* the life of one batch from its creation on: the consumer receives into
\* it and destroys it
InitMade == Init /\ impl = "recv_req_many"

NextLife ==
    \/ GoSnfRecvMany
    \/ GoSnfRecvReqManyDestroy

SpecLife == InitMade /\ [][NextLife]_vars

----------------------------------------------------------------------------
(* A ring_reader and a recv_req_many of the same capacity > 1, driven side by
   side: each cycle calls ring_reader_recharge and go_snf_recv_many, the
   transport giving both the same answer to the batch receive and accepting
   every return request *)

InitPair ==
    /\ impl = "pair"
    /\ \E n \in 2..MaxCap :
           /\ arg = [NoArg EXCEPT !.n = n]
           /\ lt = NoLoad
           /\ x = NoX
           /\ reader \in {[nreq_in |-> n, nreq_out |-> 0, req_vector |-> v] :
                              v \in [1..n -> Pkts \cup {ZeroReq}]}
           /\ \E c \in {go_snf_recv_req_many_create(EmptyHeap, n, 1, 2, 3)} :
                  /\ reqvec = c.st
                  /\ heap = c.heap /\ preqvec = c.batch /\ memlog = c.log
    /\ prog = NullProg
    /\ op = "create"
    /\ ret = 0
    /\ calls = <<>>
    /\ mark = NoMark
    /\ peer = NoPeer

\* one cycle: ret and calls are those of ring_reader_recharge, peer those of
\* go_snf_recv_many
RechargePair ==
    /\ \E m \in RecvManyOutcomes(reader.nreq_in) :
           \E t \in {[recv |-> NoRecv, many |-> m, ret |-> 0, all |-> 0]} :
              \E r \in {ring_reader_recharge(reader, t)} :
                 \E g \in {go_snf_recv_many(reqvec, t)} :
                    /\ reader' = r.st
                    /\ ret' = r.rc
                    /\ calls' = r.calls
                    /\ reqvec' = g.st
                    /\ mark' = [g.mark EXCEPT
                                   !.forgot = Forgotten(mark.forgot, reader.nreq_out,
                                                        r.calls)]
                    /\ peer' = [ret |-> g.rc, calls |-> g.calls]
    /\ op' = "recharge_pair"
    /\ memlog' = <<>>
    /\ arg' = NoArg
    /\ lt' = lt
    /\ x' = NoX
    /\ UNCHANGED <<impl, heap, preqvec, prog>>

NextPair == RechargePair

SpecPair == InitPair /\ [][NextPair]_vars

----------------------------------------------------------------------------
(* snf/inject.h *)

\* the codes an snf_inject_send may end with, and the packet lengths offered
SendRcs == {0, EAGAIN, ENOTSUP}
PktLengths == {60, 512, 1514}

RECURSIVE snf_inject_send_bulk_counts_failed(_, _, _, _, _, _)
\* mutant: the failed packet is counted among those sent
snf_inject_send_bulk_counts_failed(i, xx, sends, n_pkts, lengths, rcs) ==
    IF i < n_pkts
    THEN LET rc == rcs[i + 1]
             s  == Append(sends, [fn |-> "snf_inject_send", pkt |-> i,
                                  length |-> lengths[i + 1], rc |-> rc])
         IN  IF rc # 0
             THEN [x |-> [rc |-> rc, i |-> [xx.i EXCEPT ![1] = i + 1]], sends |-> s]
             ELSE snf_inject_send_bulk_counts_failed(i + 1, [xx EXCEPT !.rc = rc], s,
                                                     n_pkts, lengths, rcs)
    ELSE [x |-> [xx EXCEPT !.i[1] = i], sends |-> sends]

RECURSIVE snf_inject_send_bulk_loop(_, _, _, _, _, _)
\* the loop of snf_inject_send_bulk from index i on, and the store to x.i[0]
\* after it; pkts[i] is packet i, rcs[i + 1] what its send ends with, sends
\* the sends issued so far; x.i[0] is i[1] here
snf_inject_send_bulk_loop(i, xx, sends, n_pkts, lengths, rcs) ==
    IF i < n_pkts
    THEN LET rc == rcs[i + 1]
             s  == Append(sends, [fn |-> "snf_inject_send", pkt |-> i,
                                  length |-> lengths[i + 1], rc |-> rc])
         IN  IF rc # 0
             THEN [x |-> [rc |-> rc, i |-> [xx.i EXCEPT ![1] = i]], sends |-> s]
             ELSE snf_inject_send_bulk_loop(i + 1, [xx EXCEPT !.rc = rc], s,
                                            n_pkts, lengths, rcs)
    ELSE [x |-> [xx EXCEPT !.i[1] = i], sends |-> sends]

\* snf_inject_send_bulk: x zeroed, then the loop
snf_inject_send_bulk(n_pkts, lengths, rcs) ==
    snf_inject_send_bulk_loop(0, NoX, <<>>, n_pkts, lengths, rcs)

\* nothing has been injected yet
InitInject ==
    /\ impl = "inject"
    /\ reader = NoReader
    /\ reqvec = recv_req_many(0)
    /\ heap = EmptyHeap
    /\ preqvec = NullBatch
    /\ prog = NullProg
    /\ op = "start"
    /\ ret = 0
    /\ calls = <<>>
    /\ mark = NoMark
    /\ memlog = <<>>
    /\ arg = NoArg
    /\ peer = NoPeer
    /\ lt = NoLoad
    /\ x = NoX

\* one call of snf_inject_send_bulk
SnfInjectSendBulk ==
    /\ \E n \in 0..MaxPkts :
           \E lengths \in [1..n -> PktLengths], rcs \in [1..n -> SendRcs] :
               \E r \in {snf_inject_send_bulk(n, lengths, rcs)} :
                   /\ op' = "snf_inject_send_bulk"
                   /\ arg' = [n |-> n, insns |-> lengths]
                   /\ calls' = r.sends
                   /\ x' = r.x
                   /\ ret' = r.x.rc
    /\ UNCHANGED <<impl, reader, reqvec, preqvec, mark, heap, prog, memlog, peer, lt>>

NextInject == SnfInjectSendBulk

SpecInject == InitInject /\ [][NextInject]_vars

----------------------------------------------------------------------------
(* examples/loadtest/main.c *)

\* the codes a worker's snf_ring_recv may end with
WorkerRcs == {0, EINTR, EAGAIN, ENOTSUP}

\* shutdown_snf: the handles it closes, in order
shutdown_snf(ctx, n) ==
    [i \in 1..n |-> [fn |-> "snf_ring_close", ringh |-> ctx[n].ringh]]
    \o <<[fn |-> "snf_close", ringh |-> 0]>>

\* ring_handler, the loop condition: where the worker goes next
ring_handler_test(exit_mark) == IF exit_mark = 0 THEN "recv" ELSE "done"

\* ring_handler, the loop body once snf_ring_recv has returned rc
ring_handler_recv(ctx, rc) ==
    IF rc = EAGAIN \/ rc = EINTR THEN [ctx |-> ctx, pc |-> "loop"]
    ELSE IF rc # 0 THEN [ctx |-> [ctx EXCEPT !.rc = rc], pc |-> "done"]
    ELSE [ctx |-> [ctx EXCEPT !.packets = @ + 1], pc |-> "loop"]

\* main is about to call setup_sigaction.  th is where each worker stands
\* ("none": not created), last the code the latest snf_ring_recv to return
\* ended with, closes
\* the handles closed so far, code the exit status, handler the disposition
\* of each signal, resethand whether it is reset when the handler runs
InitLoad ==
    /\ impl = "loadtest"
    /\ reader = NoReader
    /\ reqvec = recv_req_many(0)
    /\ heap = EmptyHeap
    /\ preqvec = NullBatch
    /\ prog = NullProg
    /\ op = "start"
    /\ ret = 0
    /\ calls = <<>>
    /\ mark = NoMark
    /\ memlog = <<>>
    /\ arg = NoArg
    /\ peer = NoPeer
    /\ x = NoX
    /\ lt = [NoLoad EXCEPT !.pc = "setup"]

Others == <<impl, reader, reqvec, op, ret, calls, mark, heap, preqvec, prog, memlog,
            arg, peer, x>>

\* the process runs: it has neither exited nor been killed
Running == lt.pc \notin {"none", "exit", "killed"}

\* snf_error_exit has been entered, or main returns: exit is still to come,
\* and the status will be the low byte of the code
Exit(l, code) == [l EXCEPT !.pc = "exiting", !.code = code % 256]

\* shutdown_snf is entered; code is what the process will exit with after it
Shutdown(l, code) == [l EXCEPT !.pc = "shutdown", !.i = 0, !.code = code % 256]

\* the ports the device has, and the values of -n tried (-1: no -n given)
DevicePorts == {0}
PortArgs == {-1, 0, 5, 256}

\* is_port_valid, after snf_getifaddrs
is_port_valid(n) == n \in DevicePorts

\* setup_sigaction up to its loop: sa_flags is read before anything wrote it,
\* so any flag may be set besides SA_SIGINFO; SA_RESETHAND is the one that
\* changes what the process does
SetupSigaction ==
    /\ lt.pc = "setup"
    /\ \E resethand \in BOOLEAN :
           lt' = [lt EXCEPT !.pc = "sigaction", !.i = 1, !.resethand = resethand]
    /\ UNCHANGED Others

\* setup_sigaction, one turn of its loop: one sigaction call; a failed one
\* ends the process with its code
Sigaction ==
    /\ lt.pc = "sigaction"
    /\ \E rc \in {0, -1} :
           lt' = IF rc # 0 THEN Exit(lt, rc)
                 ELSE [lt EXCEPT !.handler[signals[lt.i]] = "signal_handler",
                                 !.i = IF lt.i = Len(signals) THEN 0 ELSE @ + 1,
                                 !.pc = IF lt.i = Len(signals) THEN "init" ELSE @]
    /\ UNCHANGED Others

\* main, snf_init
MainInit ==
    /\ lt.pc = "init"
    /\ \E rc \in {0, ENOTSUP} :
           lt' = IF rc # 0 THEN Exit(lt, rc) ELSE [lt EXCEPT !.pc = "port"]
    /\ UNCHANGED Others

\* main, getopt and is_port_valid with its snf_getifaddrs
MainPort ==
    /\ lt.pc = "port"
    /\ \E n \in PortArgs, rc \in {0, ENOTSUP} :
           lt' = IF rc # 0 THEN Exit([lt EXCEPT !.n = n], rc)
                 ELSE IF ~is_port_valid(n) THEN Exit([lt EXCEPT !.n = n], n)
                 ELSE [lt EXCEPT !.n = n, !.pc = "open_defaults"]
    /\ UNCHANGED Others

\* main, snf_open_defaults, and the memset of contexts[]
MainOpenDefaults ==
    /\ lt.pc = "open_defaults"
    /\ \E rc \in {0, ENOTSUP} :
           lt' = IF rc # 0 THEN Exit(lt, rc) ELSE [lt EXCEPT !.pc = "open"]
    /\ UNCHANGED Others

\* main, one turn of the loop that opens rings, and what follows the loop;
\* ring handle k + 1 is the one opened into contexts[k], and the device has
\* MaxRings rings to grant
MainRingOpen ==
    /\ lt.pc = "open"
    /\ \E rc \in {0, EBUSY, ENOTSUP} :
           /\ rc = 0 => lt.n_rings < MaxRings
           /\ lt' = IF rc = EBUSY
                    THEN IF lt.n_rings = 0 THEN Exit(lt, rc)
                         ELSE [lt EXCEPT !.pc = "start"]
                    ELSE IF rc # 0 THEN Exit(lt, rc)
                    ELSE IF lt.n_rings + 1 = RINGS_MAX
                    THEN Exit([lt EXCEPT !.contexts[lt.n_rings].ringh = lt.n_rings + 1,
                                         !.n_rings = @ + 1],
                              lt.n_rings + 1)
                    ELSE [lt EXCEPT !.contexts[lt.n_rings].ringh = lt.n_rings + 1,
                                    !.n_rings = @ + 1]
    /\ UNCHANGED Others

\* main, snf_start
MainStart ==
    /\ lt.pc = "start"
    /\ \E rc \in {0, ENOTSUP} :
           lt' = IF rc # 0 THEN Shutdown(lt, rc)
                 ELSE [lt EXCEPT !.pc = "create", !.i = 0]
    /\ UNCHANGED Others

\* threads_create, one turn of its loop, and main's reaction to its result
\* (main's rc is still the 0 of snf_start)
ThreadsCreate ==
    /\ lt.pc = "create"
    /\ \E rc \in {0, EAGAIN} :
           lt' = IF rc # 0 THEN Shutdown(lt, 0)
                 ELSE [lt EXCEPT !.th[lt.i] = "loop",
                                 !.i = @ + 1,
                                 !.pc = IF lt.i + 1 = lt.n_rings THEN "join" ELSE "create",
                                 !.c = 0]
    /\ UNCHANGED Others

\* main, one pthread_join, which returns once that worker has exited
MainJoin ==
    /\ lt.pc = "join"
    /\ lt.c < lt.n_rings
    /\ lt.th[lt.c] = "done"
    /\ lt' = [lt EXCEPT !.c = @ + 1]
    /\ UNCHANGED Others

\* main, after its join loop
MainShutdown ==
    /\ lt.pc = "join"
    /\ lt.c = lt.n_rings
    /\ lt' = Shutdown(lt, 0)
    /\ UNCHANGED Others

\* shutdown_snf, one of its n + 1 calls; after the last one snf_error_exit,
\* or main's return
ShutdownSnf ==
    /\ lt.pc = "shutdown"
    /\ lt' = [lt EXCEPT !.closes = Append(@, shutdown_snf(lt.contexts, lt.n_rings)[lt.i + 1]),
                        !.i = @ + 1,
                        !.pc = IF lt.i = lt.n_rings THEN "exiting" ELSE @]
    /\ UNCHANGED Others

\* exit, or the return of main
ProcessExit ==
    /\ lt.pc = "exiting"
    /\ lt' = [lt EXCEPT !.pc = "exit"]
    /\ UNCHANGED Others

\* signal sig is delivered while signal_handler is installed for it; with
\* SA_RESETHAND its disposition is the default one from then on
SignalHandler(sig) ==
    /\ Running
    /\ lt.handler[sig] = "signal_handler"
    /\ lt' = [lt EXCEPT !.exit_mark = 1,
                        !.handler[sig] = IF lt.resethand THEN "SIG_DFL" ELSE @]
    /\ UNCHANGED Others

\* signal sig is delivered while its disposition is the default one, before
\* sigaction installed the handler or after the handler was reset: the
\* process is killed, whatever main and the workers were doing
SignalDefault(sig) ==
    /\ Running
    /\ lt.handler[sig] = "SIG_DFL"
    /\ lt' = [lt EXCEPT !.pc = "killed"]
    /\ UNCHANGED Others

\* the packets the rings have delivered so far
RECURSIVE PacketsUpTo(_, _)
PacketsUpTo(ctx, k) == IF k < 0 THEN 0 ELSE ctx[k].packets + PacketsUpTo(ctx, k - 1)

Delivered(ctx) == PacketsUpTo(ctx, MaxRings - 1)

\* worker k reads exit_mark, and calls snf_ring_recv or leaves the loop
RingHandlerTest(k) ==
    /\ Running
    /\ lt.th[k] = "loop"
    /\ \E pc \in {ring_handler_test(lt.exit_mark)} :
           lt' = [lt EXCEPT !.th[k] = pc]
    /\ UNCHANGED Others

\* the snf_ring_recv of worker k returns
RingHandlerRecv(k) ==
    /\ Running
    /\ lt.th[k] = "recv"
    /\ \E rc \in WorkerRcs :
           /\ rc = 0 => Delivered(lt.contexts) < MaxPackets
           /\ \E r \in {ring_handler_recv(lt.contexts[k], rc)} :
                  lt' = [lt EXCEPT !.contexts[k] = r.ctx, !.th[k] = r.pc, !.last = rc]
    /\ UNCHANGED Others

Workers == 0..(MaxRings - 1)

NextLoad ==
    \/ SetupSigaction
    \/ Sigaction
    \/ MainInit
    \/ MainPort
    \/ MainOpenDefaults
    \/ MainRingOpen
    \/ MainStart
    \/ ThreadsCreate
    \/ MainJoin
    \/ MainShutdown
    \/ ShutdownSnf
    \/ ProcessExit
    \/ \E sig \in Sigs : SignalHandler(sig)
    \/ \E sig \in Sigs : SignalDefault(sig)
    \/ \E k \in Workers : RingHandlerTest(k)
    \/ \E k \in Workers : RingHandlerRecv(k)

SpecLoad == InitLoad /\ [][NextLoad]_vars

\* a step of worker k: at most one of the two is enabled at a time
RingHandler(k) == RingHandlerTest(k) \/ RingHandlerRecv(k)

\* every worker that can take a step takes it: the scheduler runs each
\* thread and a receive in flight returns; and main's pthread_join returns
\* once its worker has exited
SpecLoadFair ==
    /\ InitLoad
    /\ [][NextLoad]_vars
    /\ \A k \in Workers : WF_vars(RingHandler(k))
    /\ WF_vars(MainJoin)

----------------------------------------------------------------------------
(* What the claims speak of *)

\* the structure in use: its capacity, its populated count, its borrowed bytes
Cap == IF impl = "ring_reader" THEN reader.nreq_in ELSE reqvec.nreq_in
NreqOut == IF impl = "ring_reader" THEN reader.nreq_out ELSE reqvec.nreq_out
Borrowed == IF impl = "ring_reader" THEN ring_reader_data_qlen(reader) ELSE reqvec.total_len

RechargeOps == {"ring_reader_recharge", "go_snf_recv_many"}
ReceiveOps == RechargeOps \cup {"ring_reader_recv_many"}

IsReturn(c) == c.fn = "snf_ring_return_many"
IsReceive(c) == c.fn \in {"snf_ring_recv", "snf_ring_recv_many"}
IsSentinel(c) == IsReturn(c) /\ c.data_qlen = RELEASE_ALL
IsPrimary(c) == IsReturn(c) /\ c.data_qlen # RELEASE_ALL

ReturnCalls(cs) == SelectSeq(cs, IsReturn)
ReceiveCalls(cs) == SelectSeq(cs, IsReceive)
LastOf(cs) == cs[Len(cs)]

\* the allocator calls of a history: the blocks it obtained, whether a request
\* was refused, how often it freed p
IsAlloc(c) == c.fn \in {"malloc", "calloc"}
Allocated(log) == {log[i].p : i \in {j \in DOMAIN log : IsAlloc(log[j])}} \ {NULL}
AllocFailed(log) == \E i \in DOMAIN log : IsAlloc(log[i]) /\ log[i].p = NULL
Frees(log, p) == Cardinality({i \in DOMAIN log : log[i] = MemCall("free", p)})

\* the live blocks that calls of the function named tag allocated
OwnedBy(h, tag) == {b \in Blocks : h.owner[b] = tag}

\* the blocks of the batch behind the consumer's pointer b
BatchBlocks(b) == {b.hdr, b.reqs, b.bpf_result} \ {NULL}

\* the sum d_1 + ... + d_k of the data lengths of a batch
RECURSIVE SumLengthData(_)
SumLengthData(batch) ==
    IF batch = <<>> THEN 0 ELSE Head(batch).length_data + SumLengthData(Tail(batch))

----------------------------------------------------------------------------
\* C1: a recharge (ring_reader_recharge, go_snf_recv_many) on a structure of
\* capacity > 1 whose return step failed made no receive call to the
\* transport and returned the error code of the return step, which is the
\* code of the last return request it issued.
C1_FailedReturnStopsRecharge ==
    (/\ op \in RechargeOps
     /\ Cap > 1
     /\ ReturnCalls(calls) # <<>>
     /\ LastOf(ReturnCalls(calls)).rc # 0)
    => /\ ReceiveCalls(calls) = <<>>
       /\ ret = LastOf(ReturnCalls(calls)).rc

\* a loaded go_snf_recv_many structure (136 bytes borrowed) whose release and
\* whose release of everything both failed, with different codes
C1_Witness ==
    /\ op = "go_snf_recv_many"
    /\ Cap > 1
    /\ Len(calls) = 2
    /\ calls[1].data_qlen = 136 /\ calls[1].rc = ENOTSUP
    /\ calls[2].rc = EAGAIN
    /\ ret = EAGAIN

\* C2: with capacity > 1, after a successful batch receive that filled
\* descriptors with data lengths d_1..d_k the borrowed bytes are d_1+...+d_k,
\* and after the return step they are 0, whether the release succeeded or not.
C2_BorrowedIsSumThenZero ==
    /\ (op \in ReceiveOps /\ Cap > 1 /\ ret = 0)
           => Borrowed = SumLengthData(LastOf(calls).filled)
    /\ (op = "ring_reader_return_many" /\ Cap > 1) => Borrowed = 0
    /\ (op = "ring_reader_recharge" /\ Cap > 1 /\ ReceiveCalls(calls) = <<>>)
           => Borrowed = 0
    /\ (op = "go_snf_recv_many" /\ Cap > 1) => mark.returned = 0

\* a reader with 176 bytes borrowed whose release failed
C2_Witness ==
    /\ op = "ring_reader_return_many"
    /\ Cap > 1
    /\ calls[1].data_qlen = 176
    /\ calls[1].rc # 0
    /\ Borrowed = 0

\* C3: with capacity > 1, the recharge that follows a receive which populated
\* at least one descriptor issues exactly one return request for a byte
\* count, that count is the sum of length_data over the descriptors of that
\* receive, and the request is the first call of the recharge, so before any
\* receive call.
C3_RechargeReturnsPreviousBatch ==
    [][(/\ Cap > 1
        /\ op \in ReceiveOps /\ ret = 0 /\ NreqOut > 0
        /\ op' \in RechargeOps)
       => /\ calls' # <<>>
          /\ IsPrimary(calls'[1])
          /\ calls'[1].data_qlen = SumLengthData(LastOf(calls).filled)
          /\ Len(SelectSeq(calls', IsPrimary)) = 1]_vars

\* a recharge that returned the 176 bytes of a two-descriptor batch and then
\* received again
C3_Witness ==
    /\ op = "ring_reader_recharge"
    /\ Len(calls) = 2
    /\ IsPrimary(calls[1]) /\ calls[1].data_qlen = 176 /\ calls[1].rc = 0
    /\ calls[2].fn = "snf_ring_recv_many"

\* C4: with capacity 1, ring_reader_return_many calls nothing of the
\* transport and returns 0, and no operation on the structure, a recharge
\* included, ever issues a return request.
C4_SingleDescriptorNeverReturns ==
    Cap = 1 =>
        /\ ReturnCalls(calls) = <<>>
        /\ op = "ring_reader_return_many" => (ret = 0 /\ calls = <<>>)

\* ring_reader_return_many on a single-descriptor reader holding a packet
C4_Witness ==
    /\ impl = "ring_reader"
    /\ Cap = 1
    /\ op = "ring_reader_return_many"
    /\ reader.req_vector[1] \in Pkts

\* C5: with capacity > 1, a return step whose release of the computed byte
\* count failed issues one further request, for the release-everything
\* sentinel, and a return step whose release succeeded issues no other.
C5_FailedReleaseFallsBack ==
    (Cap > 1 /\ ReturnCalls(calls) # <<>>)
    => LET rs == ReturnCalls(calls)
       IN /\ IsPrimary(rs[1])
          /\ IF rs[1].rc # 0
             THEN Len(rs) = 2 /\ IsSentinel(rs[2])
             ELSE Len(rs) = 1

\* C6: with capacity 1 a receive makes one transport call, the
\* single-descriptor snf_ring_recv, and leaves the populated count at 1 when
\* that call returned 0 and at 0 when it returned anything else.
C6_SingleDescriptorReceive ==
    (Cap = 1 /\ op \in ReceiveOps)
    => /\ Len(calls) = 1
       /\ calls[1].fn = "snf_ring_recv"
       /\ NreqOut = (IF calls[1].rc = 0 THEN 1 ELSE 0)
       /\ ret = calls[1].rc

\* a single-descriptor receive that timed out after earlier ones had
\* delivered packets
C6_Witness ==
    /\ op = "go_snf_recv_many"
    /\ Cap = 1
    /\ ret = EAGAIN
    /\ NreqOut = 0
    /\ reqvec.total_len = 176

\* C7: with capacity > 1, after a batch receive that the transport ended
\* with an error the populated count is 0 and that error is returned, and
\* after one it ended with success the count is the number it filled.
C7_BatchReceiveCount ==
    (Cap > 1 /\ op \in ReceiveOps /\ ReceiveCalls(calls) # <<>>)
    => LET c == LastOf(calls)
       IN /\ c.fn = "snf_ring_recv_many"
          /\ ret = c.rc
          /\ NreqOut = (IF c.rc = 0 THEN Len(c.filled) ELSE 0)

\* C8: go_snf_post_process leaves the populated count as it found it and
\* adds the length_data of every populated slot to total_len, whatever the
\* filter said of the slot.
C8_FilterKeepsCountAndBytes ==
    op = "go_snf_recv_many"
    => /\ reqvec.nreq_out = mark.pre_nreq_out
       /\ reqvec.total_len =
              mark.pre_total + SumLengthData(SubSeq(reqvec.reqs, 1, reqvec.nreq_out))

\* a batch of two whose first descriptor (40 bytes of ring memory) the filter
\* rejected and whose second (136 bytes) it accepted
C8_Witness ==
    /\ op = "go_snf_recv_many"
    /\ reqvec.nreq_out = 2
    /\ reqvec.fp.bf_len > 0
    /\ reqvec.reqs = <<snf_recv_req(32, 40), snf_recv_req(128, 136)>>
    /\ reqvec.bpf_result = <<0, 65535>>
    /\ mark.pre_total = 0
    /\ reqvec.total_len = 176

\* C9: after a receive made with a filter program of zero instructions every
\* populated slot has a filter result that reads as accepted (non-zero).
C9_ClearedFilterAccepts ==
    (op = "go_snf_recv_many" /\ reqvec.fp.bf_len = 0)
    => \A i \in 1..reqvec.nreq_out : reqvec.bpf_result[i] # 0

\* what each filter program of the model decides for a packet of a length
Accepts(insns, length) ==
    CASE insns = LenGe64 -> length >= 64
      [] insns = HasByte130 -> length > 130

\* C10: after a successful receive made with a non-empty filter program,
\* result slot i of every populated slot holds what the program returns for
\* descriptor i of the batch, its length taken as captured and wire length.
C10_FilterResultPerSlot ==
    (op = "go_snf_recv_many" /\ ret = 0 /\ reqvec.fp.bf_len > 0)
    => \A i \in 1..reqvec.nreq_out :
           reqvec.bpf_result[i] =
               (IF Accepts(reqvec.fp.bf_insns.mem, reqvec.reqs[i].length) THEN 65535 ELSE 0)

\* lengths 32 and 128 under "len >= 64": rejected, accepted
C10_Witness ==
    /\ op = "go_snf_recv_many"
    /\ ret = 0
    /\ reqvec.fp.bf_insns.mem = LenGe64
    /\ reqvec.nreq_out = 2
    /\ reqvec.reqs[1].length = 32 /\ reqvec.reqs[2].length = 128
    /\ reqvec.bpf_result = <<0, 65535>>

----------------------------------------------------------------------------
\* C11: a go_snf_recv_req_many_create one of whose calloc calls was refused
\* returns ENOMEM, has freed every block it had obtained exactly once, so that
\* the live blocks are those live before the call, no free of its own misused,
\* and has not written the caller's pointer.
C11_FailedCreateIsUndone ==
    [][(op' = "go_snf_recv_req_many_create" /\ AllocFailed(memlog'))
       => /\ ret' = ENOMEM
          /\ \A p \in Allocated(memlog') : Frees(memlog', p) = 1
          /\ heap'.owner = heap.owner
          /\ heap'.bad = heap.bad
          /\ preqvec' = preqvec]_vars

\* the filter-result array was refused after the header and the descriptor
\* array had been obtained
C11_Witness ==
    /\ op = "go_snf_recv_req_many_create"
    /\ ret = ENOMEM
    /\ Cardinality(Allocated(memlog)) = 2
    /\ \A p \in Allocated(memlog) : Frees(memlog, p) = 1
    /\ preqvec = NullBatch

----------------------------------------------------------------------------
\* C12: go_snf_recv_req_many_create called with nreq_in = 0 returns an error
\* and hands the caller no batch: its pointer names no live batch afterwards.
C12_ZeroCapacityRefused ==
    (op = "go_snf_recv_req_many_create" /\ arg.n = 0)
        => (ret # 0 /\ ~BatchLive)

----------------------------------------------------------------------------
\* C13: go_bpf_make fails only when one of its malloc calls is refused; it
\* then returns ENOMEM, has freed what it had obtained, and leaves the caller's
\* program pointer and the program behind it as they were.  Otherwise it
\* returns 0 and the caller's pointer holds a new program whose bf_len is
\* n_insns and whose instructions are the first n_insns of the caller's, in
\* a block obtained by this call, which is not the caller's array.
C13_BpfMakeCopiesOrUndoes ==
    [][op' = "go_bpf_make"
       => IF AllocFailed(memlog')
          THEN /\ ret' = ENOMEM
               /\ \A p \in Allocated(memlog') : Frees(memlog', p) = 1
               /\ heap'.owner = heap.owner
               /\ heap'.bad = heap.bad
               /\ prog' = prog
          ELSE /\ ret' = 0
               /\ prog'.fp \in Allocated(memlog')
               /\ prog'.bf_len = arg'.n
               /\ prog'.mem = SubSeq(arg'.insns, 1, arg'.n)
               /\ prog'.bf_insns \in Allocated(memlog') \ {prog'.fp}
               /\ prog'.bf_insns \notin Live(heap) \cup {InsnsAddr}
               /\ \A p \in Allocated(memlog') : Frees(memlog', p) = 0]_vars

\* the instruction block was refused while the caller held an earlier
\* program of four instructions, which is still there
C13_Witness ==
    /\ op = "go_bpf_make"
    /\ ret = ENOMEM
    /\ Cardinality(Allocated(memlog)) = 1
    /\ ProgLive
    /\ prog.bf_len = Len(LenGe64)
    /\ prog.mem = LenGe64

----------------------------------------------------------------------------
\* C14: a batch destroyed while it had borrowed bytes (total_len > 0) was
\* destroyed by an operation that first asked the transport to return them:
\* no batch reaches the destroyed state with bytes borrowed and no return
\* request since its last receive.
C14_DestroyReturnsFirst ==
    (op = "go_snf_recv_req_many_destroy" /\ mark.pre_total > 0)
        => ReturnCalls(calls) # <<>>

----------------------------------------------------------------------------
\* C15: in every state 0 <= nreq_out <= nreq_in; nreq_out is 0 from creation
\* until a receive operation is called (it is 0 at creation, and an operation
\* that is not a receive leaves a 0 in place); no operation changes nreq_in.
C15_CountWithinCapacity ==
    /\ [](/\ 0 <= NreqOut
          /\ NreqOut <= Cap
          /\ op = "create" => NreqOut = 0)
    /\ [][/\ Cap' = Cap
          /\ (NreqOut = 0 /\ op' \notin ReceiveOps) => NreqOut' = 0]_vars

\* a receive that filled both descriptors of a batch created for two
C15_Witness ==
    /\ impl = "recv_req_many"
    /\ op = "go_snf_recv_many"
    /\ ret = 0
    /\ reqvec.nreq_in = 2
    /\ reqvec.nreq_out = reqvec.nreq_in

----------------------------------------------------------------------------
\* C16: a recharge (ring_reader_recharge, go_snf_recv_many) whose receive
\* call the transport ended with EAGAIN (no packet within the timeout, ring
\* busy) reports a zero result and no error: it returns 0 with nreq_out = 0;
\* and the recharge called next makes a receive call.
C16_TransientIsZeroResult ==
    /\ []((op \in RechargeOps /\ ReceiveCalls(calls) # <<>> /\ LastOf(calls).rc = EAGAIN)
            => (ret = 0 /\ NreqOut = 0))
    /\ [][(/\ op \in RechargeOps /\ ReceiveCalls(calls) # <<>> /\ LastOf(calls).rc = EAGAIN
           /\ op' \in RechargeOps)
            => ReceiveCalls(calls') # <<>>]_vars

----------------------------------------------------------------------------
\* C17: in every state of a recv_req_many, whatever its capacity and whether
\* or not the last call failed, total_len is the sum of length_data over the
\* nreq_out descriptors of the most recent receive, and is 0 once they are
\* returned: it carries no bytes of an earlier batch.
C17_TotalIsLastBatch ==
    impl = "recv_req_many"
        => reqvec.total_len = SumLengthData(SubSeq(reqvec.reqs, 1, reqvec.nreq_out))

----------------------------------------------------------------------------
\* the blocks go_snf_recv_req_many_create allocated and that are live are
\* those of the batch the consumer holds, if it holds one
NoBatchLeak ==
    OwnedBy(heap, "go_snf_recv_req_many_create")
        = (IF BatchLive THEN BatchBlocks(preqvec) ELSE {})

\* C18: go_snf_recv_req_many_destroy called on the batch a successful create
\* stored frees each block of the batch exactly once and nothing else, misuses
\* no free, and leaves no block of create live; called on NULL it passes NULL
\* to free once and leaves the heap as it was.  So from a heap on which the
\* live blocks of create are those of the consumer's batch, every create and
\* every destroy of that batch or of NULL leads to such a heap again, which
\* after the destroy has no block of create live.
C18_RoundTripFreesAll ==
    /\ [][(op' = "go_snf_recv_req_many_destroy" /\ BatchLive)
          => /\ \A p \in BatchBlocks(preqvec) : Frees(memlog', p) = 1
             /\ \A i \in DOMAIN memlog' :
                    memlog'[i].fn = "free" /\ memlog'[i].p \in BatchBlocks(preqvec)
             /\ Live(heap') = Live(heap) \ BatchBlocks(preqvec)
             /\ heap'.bad = heap.bad
             /\ NoBatchLeak => OwnedBy(heap', "go_snf_recv_req_many_create") = {}]_vars
    /\ [][(op' = "go_snf_recv_req_many_destroy" /\ preqvec.hdr = NULL)
          => (heap' = heap /\ memlog' = <<MemCall("free", NULL)>>)]_vars
    /\ [][(/\ NoBatchLeak
           /\ \/ op' = "go_snf_recv_req_many_create"
              \/ op' = "go_snf_recv_req_many_destroy" /\ (BatchLive \/ preqvec.hdr = NULL))
          => NoBatchLeak']_vars

\* a batch was created and destroyed, its three blocks freed, while a filter
\* program stays allocated
C18_Witness ==
    /\ op = "go_snf_recv_req_many_destroy"
    /\ Len(memlog) = 3
    /\ \A i \in DOMAIN memlog : memlog[i].p # NULL
    /\ OwnedBy(heap, "go_snf_recv_req_many_create") = {}
    /\ ProgLive
    /\ Live(heap) = {prog.fp, prog.bf_insns}
    /\ ~heap.bad

----------------------------------------------------------------------------
\* C19: ring_recv returns the code of snf_ring_recv unchanged, and evaluates
\* no filter, when that code is not 0; with the packet received it returns 0
\* without evaluating the filter when the program has no instructions, ENOMSG
\* when the program evaluated on the packet (captured and wire length both
\* the descriptor's length) rejects it, and 0 when it accepts it.
C19_RingRecvResult ==
    op = "ring_recv"
        => LET recv == calls[1]
               fp == ProgStruct(prog)
           IN /\ recv.fn = "snf_ring_recv"
              /\ IF recv.rc # 0
                 THEN ret = recv.rc /\ Len(calls) = 1
                 ELSE IF prog.bf_len = 0
                 THEN ret = 0 /\ Len(calls) = 1
                 ELSE /\ Len(calls) = 2
                      /\ calls[2].fn = "pcap_offline_filter"
                      /\ calls[2].filled = recv.filled
                      /\ ret = IF Accepts(prog.mem, recv.filled[1].length)
                               THEN 0 ELSE ENOMSG

\* a packet of 32 bytes received and rejected by the program "len >= 64"
C19_Witness ==
    /\ op = "ring_recv"
    /\ ret = ENOMSG
    /\ prog.mem = LenGe64
    /\ calls[1].rc = 0
    /\ calls[1].filled[1].length = 32

----------------------------------------------------------------------------
\* the transport's answers in a go_snf_recv_many whose first release succeeds
\* and whose batch receive is answered as the recorded call c was
AfterRelease(c) ==
    [recv |-> NoRecv,
     many |-> [rc |-> c.rc, wrote |-> c.rc = 0, count |-> Len(c.filled), filled |-> c.filled],
     ret |-> 0,
     all |-> 0]

\* C20: a go_snf_recv_many on a batch of capacity > 1 whose release of
\* total_len bytes failed, so that it made the fallback request: when the
\* fallback failed too, it returns the fallback's code, makes no receive call
\* and leaves nreq_out = 0 and total_len = 0; when the fallback succeeded, it
\* makes the batch receive and ends exactly as the same call does when the
\* first release succeeds and the transport answers the receive alike (same
\* structure, same return code, same receive).
C20_FallbackDecidesReceive ==
    [][(op' = "go_snf_recv_many" /\ reqvec.nreq_in > 1 /\ Len(ReturnCalls(calls')) = 2)
       => IF calls'[2].rc # 0
          THEN /\ ret' = calls'[2].rc
               /\ ReceiveCalls(calls') = <<>>
               /\ reqvec'.nreq_out = 0
               /\ reqvec'.total_len = 0
          ELSE /\ Len(ReceiveCalls(calls')) = 1
               /\ \E g \in {go_snf_recv_many(reqvec, AfterRelease(LastOf(calls')))} :
                      /\ g.st = reqvec'
                      /\ g.rc = ret'
                      /\ ReceiveCalls(g.calls) = ReceiveCalls(calls')]_vars

\* 80 borrowed bytes whose release was refused with EAGAIN and the fallback
\* with ENOTSUP
C20_Witness ==
    /\ op = "go_snf_recv_many"
    /\ reqvec.nreq_in = 2
    /\ Len(calls) = 2
    /\ calls[1].data_qlen = 80 /\ calls[1].rc = EAGAIN
    /\ IsSentinel(calls[2]) /\ calls[2].rc = ENOTSUP
    /\ ret = ENOTSUP
    /\ reqvec.nreq_out = 0
    /\ reqvec.total_len = 0

----------------------------------------------------------------------------
\* a ring_reader_recharge just ended by the failure of its return request
ReturnFailedInRecharge ==
    /\ op = "ring_reader_recharge"
    /\ calls # <<>>
    /\ IsReturn(calls[1])
    /\ calls[1].rc # 0

\* C21: after a ring_reader_recharge whose return request failed, nreq_out is
\* 0 and no descriptor counts as borrowed; the ring_reader_recharge called
\* next makes a receive call and no return request; and no later operation of
\* the reader asks the transport to release those bytes again: a return
\* request covers no descriptor that a failed return request covered and no
\* receive has filled since.
C21_FailedReturnForgetsBytes ==
    /\ [](ReturnFailedInRecharge
            => (reader.nreq_out = 0 /\ ring_reader_data_qlen(reader) = 0))
    /\ [][(ReturnFailedInRecharge /\ op' = "ring_reader_recharge")
          => (Len(calls') = 1 /\ IsReceive(calls'[1]))]_vars
    /\ [][(impl = "ring_reader" /\ calls' # <<>> /\ IsReturn(calls'[1]))
          => mark.forgot \cap 1..reader.nreq_out = {}]_vars

----------------------------------------------------------------------------
\* the calls of an operation hold a receive that filled a descriptor
FilledReceive(cs) == \E i \in DOMAIN cs : IsReceive(cs[i]) /\ cs[i].filled # <<>>

\* every receive among the calls of an operation comes after a return request
ReturnBeforeReceive(cs) ==
    \A i \in DOMAIN cs : IsReceive(cs[i]) => \E j \in 1..(i - 1) : IsReturn(cs[j])

\* C22: with capacity > 1, when a recharge whose receive filled at least one
\* descriptor is followed by a recharge that makes a receive, that recharge
\* makes a return request first; go_snf_recv_many makes a return request
\* before every batch receive, whatever was called before it.  So no two
\* batch receives, the first having filled a descriptor, reach the transport
\* from recharge calls without a return request between them.
C22_ReturnBetweenReceives ==
    /\ [][(/\ Cap > 1
           /\ op \in RechargeOps /\ FilledReceive(calls)
           /\ op' \in RechargeOps /\ ReceiveCalls(calls') # <<>>)
          => ReturnBeforeReceive(calls')]_vars
    /\ []((op = "go_snf_recv_many" /\ Cap > 1) => ReturnBeforeReceive(calls))

\* a ring_reader_recharge that returned the 40 bytes of the one descriptor
\* the receive before it had filled, and then received again
C22_Witness ==
    /\ op = "ring_reader_recharge"
    /\ reader.nreq_in = 2
    /\ Len(calls) = 2
    /\ IsReturn(calls[1]) /\ calls[1].data_qlen = 40 /\ calls[1].rc = 0
    /\ IsReceive(calls[2])

----------------------------------------------------------------------------
\* C23: with capacity > 1 and every return request accepted, a
\* ring_reader_recharge and a go_snf_recv_many given the same receive outcomes
\* end each cycle with the same nreq_out and the same return code, and every
\* return request of ring_reader_recharge is for the byte count that
\* go_snf_recv_many asks to release in that cycle.
C23_RechargeVariantsAgree ==
    op = "recharge_pair"
        => /\ reader.nreq_out = reqvec.nreq_out
           /\ ret = peer.ret
           /\ \A i \in DOMAIN calls :
                  IsReturn(calls[i])
                      => \E j \in DOMAIN peer.calls :
                             /\ IsReturn(peer.calls[j])
                             /\ peer.calls[j].data_qlen = calls[i].data_qlen

\* worker k's snf_ring_recv returns in this step
RecvReturns(k) == lt.th[k] = "recv" /\ lt'.th[k] # "recv"

\* C24: a worker of the load test retries its receive on EAGAIN or EINTR and
\* records nothing; at the first other non-zero code it stores the code in its
\* own context and stops for good; it counts one packet per successful
\* receive and none otherwise; with the shutdown flag set it issues no further
\* receive; and once the flag is set while main waits in its join loop, main
\* comes to have joined every worker.
C24_WorkersRetryStopAndJoin ==
    /\ [][\A k \in Workers :
            /\ (RecvReturns(k) /\ lt'.last \in {EAGAIN, EINTR})
                   => (lt'.contexts = lt.contexts /\ lt'.th[k] = "loop")
            /\ (RecvReturns(k) /\ lt'.last \notin {0, EAGAIN, EINTR})
                   => /\ lt'.th[k] = "done"
                      /\ lt'.contexts = [lt.contexts EXCEPT ![k].rc = lt'.last]
            /\ (RecvReturns(k) /\ lt'.last = 0)
                   => /\ lt'.th[k] = "loop"
                      /\ lt'.contexts = [lt.contexts EXCEPT ![k].packets = @ + 1]
            /\ (\/ lt'.contexts[k].rc # lt.contexts[k].rc
                \/ lt'.contexts[k].packets # lt.contexts[k].packets) => RecvReturns(k)
            /\ lt.th[k] = "done" => lt'.th[k] = "done"
            /\ (lt.exit_mark = 1 /\ lt.th[k] = "loop") => lt'.th[k] \in {"loop", "done"}]_vars
    /\ (lt.pc = "join" /\ lt.exit_mark = 1)
           ~> (lt.c = lt.n_rings)

\* C25: snf_inject_send_bulk sends the packets in index order, each with its
\* own length; every send but the last one issued succeeded, so nothing is
\* attempted after a failure; when the last send failed, x.i[0] is the number
\* of sends before it and x.rc its code; otherwise all n_pkts packets were
\* sent, x.i[0] is n_pkts and x.rc is 0.
C25_BulkStopsAtFirstFailure ==
    op = "snf_inject_send_bulk" =>
        LET k == Len(calls)
        IN  /\ k <= arg.n
            /\ \A j \in 1..k : calls[j].pkt = j - 1 /\ calls[j].length = arg.insns[j]
            /\ \A j \in 1..(k - 1) : calls[j].rc = 0
            /\ IF k > 0 /\ calls[k].rc # 0
               THEN x.i[1] = k - 1 /\ x.rc = calls[k].rc /\ ret = calls[k].rc
               ELSE k = arg.n /\ x.i[1] = arg.n /\ x.rc = 0 /\ ret = 0

\* three packets offered, the second send fails with EAGAIN: two sends, one
\* packet reported sent
C25_Witness ==
    /\ op = "snf_inject_send_bulk" /\ arg.n = 3 /\ Len(calls) = 2
    /\ calls[1].rc = 0 /\ calls[2].rc = EAGAIN /\ calls[2].pkt = 1
    /\ x.i[1] = 1 /\ x.rc = EAGAIN

\* how often ring handle h has been closed
RingCloses(h) ==
    Cardinality({j \in DOMAIN lt.closes :
                    lt.closes[j].fn = "snf_ring_close" /\ lt.closes[j].ringh = h})

\* C26: once shutdown_snf(h, ctx, n) has returned, each of the ring handles
\* ctx[0..n-1].ringh has been closed exactly once, every snf_ring_close was
\* for one of them, and the one snf_close comes last, after n ring closes.
C26_ShutdownClosesEachRingOnce ==
    (lt.closes # <<>> /\ LastOf(lt.closes).fn = "snf_close") =>
        /\ \A k \in 0..(lt.n_rings - 1) : RingCloses(lt.contexts[k].ringh) = 1
        /\ \A j \in DOMAIN lt.closes :
               lt.closes[j].fn = "snf_ring_close"
                   => \E k \in 0..(lt.n_rings - 1) : lt.closes[j].ringh = lt.contexts[k].ringh
        /\ Len(lt.closes) = lt.n_rings + 1
        /\ \A j \in DOMAIN lt.closes : lt.closes[j].fn = "snf_close" <=> j = Len(lt.closes)

====
